---- MODULE Spec2Model ----
(***************************************************************************)
(* A model of the Scheme-like interpreter of src/main.py: tokenize, parse, *)
(* number_or_symbol, Frame, Functions (closures), the builtins and         *)
(* evaluate / result_and_frame.                                            *)
(*                                                                         *)
(* Representation.  A Python str is a sequence of one-character strings,   *)
(* so that it can be scanned, stripped and iterated as the code does.      *)
(* A parsed expression (and a runtime value) is a tagged record:           *)
(*   [k |-> "int", n]            a Python int                              *)
(*   [k |-> "float", num, den]   a Python float, kept as the exact         *)
(*                               fraction num/den in lowest terms          *)
(*   [k |-> "sym", s]            a Python str (a symbol)                   *)
(*   [k |-> "list", xs]          a Python list                             *)
(*   [k |-> "builtin", s]        an entry of scheme_builtins               *)
(*   [k |-> "closure", params, body, defining_frame]   a Functions object  *)
(* A raised exception is the name of its class; "" means a normal return.  *)
(***************************************************************************)
EXTENDS Integers, Sequences, FiniteSets, TLC

VARIABLES
    source,        \* the text handed to tokenize
    token_list,    \* the tokens handed to parse
    parsed,        \* the outcome of parse: [err, tree]
    pc,            \* position in the tokenize -> parse pipeline
    via,           \* "text": tokens came from tokenize; "tokens": given directly
    frames,        \* the heap of Frame objects; frames[1] is builtins_frame
    global_frame,  \* SchemeREPL.global_frame (0 is None)
    last,          \* the latest top-level evaluation: its inputs, outcome and trace
    ncmds          \* the number of top-level evaluations made

vars == <<source, token_list, parsed, pc, via, frames, global_frame, last, ncmds>>

front_vars == <<source, token_list, parsed, pc, via>>
eval_vars == <<frames, global_frame, last, ncmds>>

\* ------------------------------------------------------------------ bounds

\* Longest source text given to tokenize.
MaxLen == 4
\* Longest token sequence given to parse directly.
MaxTokens == 5
\* Number of top-level evaluations in one session.
MaxCmds == 3
\* Depth of nested evaluate calls at which the interpreter overflows its stack
\* (sys.setrecursionlimit(20_000) in the program).
RecursionLimit == 7

\* ------------------------------------------------------------ expressions

Sym(s) == [k |-> "sym", s |-> s]
PyInt(n) == [k |-> "int", n |-> n]
Lst(xs) == [k |-> "list", xs |-> xs]

Abs(n) == IF n < 0 THEN -n ELSE n

RECURSIVE Gcd(_, _)
Gcd(a, b) == IF b = 0 THEN a ELSE Gcd(b, a % b)

\* The float whose value is num/den (den # 0), in lowest terms, den > 0.
PyFloat(num, den) ==
    LET g == Gcd(Abs(num), Abs(den))
        s == IF den < 0 THEN -1 ELSE 1
    IN  [k |-> "float", num |-> s * (num \div g), den |-> s * (den \div g)]

IsNumber(x) == x.k \in {"int", "float"}
IsStr(x) == x.k = "sym"
IsList(x) == x.k = "list"

\* The exception classes: SchemeError's subclasses, and Python's own.
SchemeErrors == {"SchemeSyntaxError", "SchemeNameError", "SchemeEvaluationError"}
PythonErrors == {"IndexError", "ValueError", "TypeError", "ZeroDivisionError",
                 "RecursionError"}

\* ----------------------------------------------------------------- lexer

Digits == {"0", "1", "2", "3", "4", "5", "6", "7", "8", "9"}

DigitVal(c) ==
    CASE c = "0" -> 0 [] c = "1" -> 1 [] c = "2" -> 2 [] c = "3" -> 3
      [] c = "4" -> 4 [] c = "5" -> 5 [] c = "6" -> 6 [] c = "7" -> 7
      [] c = "8" -> 8 [] c = "9" -> 9

\* add_token: append the atom in progress, if any, and reset it.
\* Returns the pair <<tokens, ind_token>>.
add_token(tokens, ind_token) ==
    IF ind_token # <<>> THEN <<Append(tokens, ind_token), <<>>>>
    ELSE <<tokens, ind_token>>

\* The comment loop also consuming the newline that ends the comment.
RECURSIVE skip_comment_and_newline(_, _)
skip_comment_and_newline(src, index) ==
    IF index < Len(src) /\ src[index + 1] # "\n"
    THEN skip_comment_and_newline(src, index + 1)
    ELSE IF index < Len(src) THEN index + 1 ELSE index

\* The inner while of tokenize: advance index (0-based) to the next newline
\* or to the end of the source.
RECURSIVE skip_comment(_, _)
skip_comment(src, index) ==
    IF index < Len(src) /\ src[index + 1] # "\n"
    THEN skip_comment(src, index + 1)
    ELSE index

\* The outer while of tokenize, from index (0-based) on, and the final add_token.
RECURSIVE tokenize_from(_, _, _, _)
tokenize_from(src, index, tokens, ind_token) ==
    IF index < Len(src) THEN
        LET char == src[index + 1] IN
        IF char = ";" THEN
            tokenize_from(src, skip_comment(src, index), tokens, ind_token)
        ELSE IF char \in {"(", ")"} THEN
            LET a == add_token(tokens, ind_token)
            IN  tokenize_from(src, index + 1, Append(a[1], <<char>>), a[2])
        ELSE IF char \notin {" ", "\n"} THEN
            tokenize_from(src, index + 1, tokens, Append(ind_token, char))
        ELSE
            LET a == add_token(tokens, ind_token)
            IN  tokenize_from(src, index + 1, a[1], a[2])
    ELSE add_token(tokens, ind_token)[1]

tokenize(src) == tokenize_from(src, 0, <<>>, <<>>)

\* ------------------------------------------------------- number_or_symbol

\* The characters str.strip(), int() and float() treat as white space.
PyWhitespace == {" ", "\n", "\t"}

RECURSIVE lstrip(_)
lstrip(s) == IF s # <<>> /\ s[1] \in PyWhitespace THEN lstrip(Tail(s)) ELSE s

RECURSIVE rstrip(_)
rstrip(s) ==
    IF s # <<>> /\ s[Len(s)] \in PyWhitespace
    THEN rstrip(SubSeq(s, 1, Len(s) - 1))
    ELSE s

strip(s) == rstrip(lstrip(s))

AllDigits(s) == \A i \in 1..Len(s) : s[i] \in Digits

RECURSIVE DigitsVal(_)
DigitsVal(s) ==
    IF s = <<>> THEN 0
    ELSE 10 * DigitsVal(SubSeq(s, 1, Len(s) - 1)) + DigitVal(s[Len(s)])

RECURSIVE Pow10(_)
Pow10(n) == IF n = 0 THEN 1 ELSE 10 * Pow10(n - 1)

\* An optional sign, then the rest.
SignOf(s) == IF s # <<>> /\ s[1] = "-" THEN -1 ELSE 1
Unsigned(s) == IF s # <<>> /\ s[1] \in {"-", "+"} THEN Tail(s) ELSE s

\* int(value) succeeds: white space, an optional sign, one or more digits
\* (digit separators '_' and other bases are outside the modelled alphabet).
IntOk(value) ==
    LET u == Unsigned(strip(value)) IN u # <<>> /\ AllDigits(u)

IntOf(value) ==
    LET t == strip(value) IN SignOf(t) * DigitsVal(Unsigned(t))

\* The positions of '.' in s.
Dots(s) == {i \in 1..Len(s) : s[i] = "."}

\* float(value) succeeds: white space, an optional sign, digits with at most
\* one '.', at least one digit (exponents, inf and nan are outside the
\* modelled alphabet).
FloatOk(value) ==
    LET u == Unsigned(strip(value)) IN
    /\ Cardinality(Dots(u)) <= 1
    /\ \A i \in 1..Len(u) : u[i] \in Digits \cup {"."}
    /\ \E i \in 1..Len(u) : u[i] \in Digits

FloatOf(value) ==
    LET t == strip(value)
        u == Unsigned(t)
        d == IF Dots(u) = {} THEN Len(u) + 1 ELSE CHOOSE i \in Dots(u) : TRUE
        whole == SubSeq(u, 1, d - 1)
        frac == SubSeq(u, d + 1, Len(u))
    IN  PyFloat(SignOf(t) * (DigitsVal(whole) * Pow10(Len(frac)) + DigitsVal(frac)),
              Pow10(Len(frac)))

\* number_or_symbol: int first, then float, else the string itself.
number_or_symbol(value) ==
    IF IntOk(value) THEN PyInt(IntOf(value))
    ELSE IF FloatOk(value) THEN FloatOf(value)
    ELSE Sym(value)

\* ----------------------------------------------------------------- parser

LPAREN == <<"(">>
RPAREN == <<")">>

\* parse_expression(index), index 0-based.  Returns [err, tree, index];
\* tree and index mean nothing when err # "".
RECURSIVE parse_expression(_, _)
RECURSIVE parse_list(_, _, _)

Fail(e) == [err |-> e, tree |-> Lst(<<>>), index |-> 0]

\* The while loop of the "(" branch: index is the position of the next
\* token, sub_expr_list what has been collected.
parse_list(tokens, index, sub_expr_list) ==
    IF index < Len(tokens) /\ tokens[index + 1] # RPAREN THEN
        LET r == parse_expression(tokens, index) IN
        IF r.err # "" THEN r
        ELSE IF r.index >= Len(tokens) THEN Fail("SchemeSyntaxError")
        ELSE parse_list(tokens, r.index, Append(sub_expr_list, r.tree))
    ELSE IF index >= Len(tokens) THEN Fail("SchemeSyntaxError")
    ELSE [err |-> "", tree |-> Lst(sub_expr_list), index |-> index + 1]

parse_expression(tokens, index) ==
    IF index >= Len(tokens) THEN Fail("IndexError")   \* tokens[index]
    ELSE LET token == tokens[index + 1] IN
        IF token = LPAREN THEN parse_list(tokens, index + 1, <<>>)
        ELSE IF token = RPAREN THEN Fail("SchemeSyntaxError")
        ELSE [err |-> "", tree |-> number_or_symbol(token), index |-> index + 1]

\* parse without its check for unconsumed tokens.
parse_ignoring_rest(tokens) ==
    LET r == parse_expression(tokens, 0) IN
    IF r.err # "" THEN [err |-> r.err, tree |-> Lst(<<>>)]
    ELSE [err |-> "", tree |-> r.tree]

\* parse(tokens).  Returns [err, tree].
parse(tokens) ==
    LET r == parse_expression(tokens, 0) IN
    IF r.err # "" THEN [err |-> r.err, tree |-> Lst(<<>>)]
    ELSE IF r.index # Len(tokens) THEN [err |-> "SchemeSyntaxError", tree |-> Lst(<<>>)]
    ELSE [err |-> "", tree |-> r.tree]

\* The except clause of SchemeREPL.onecmd: it catches SchemeError only.
ShellCatches(e) == e \in SchemeErrors

\* --------------------------------------------------------------- builtins

PLUS == <<"+">>
MINUS == <<"-">>
TIMES == <<"*">>
DIVIDE == <<"/">>

\* The keys of scheme_builtins.
BuiltinNames == {PLUS, MINUS, TIMES, DIVIDE}

Builtin(name) == [k |-> "builtin", s |-> name]

\* Numbers as fractions; an int has denominator 1.
NumOf(x) == IF x.k = "int" THEN x.n ELSE x.num
DenOf(x) == IF x.k = "int" THEN 1 ELSE x.den

\* The number num/den: an int when both operands were ints, else a float.
MkNum(isint, num, den) == IF isint THEN PyInt(num) ELSE PyFloat(num, den)

BothInt(a, b) == a.k = "int" /\ b.k = "int"

NumAdd(a, b) ==
    MkNum(BothInt(a, b), NumOf(a) * DenOf(b) + NumOf(b) * DenOf(a), DenOf(a) * DenOf(b))
NumSub(a, b) ==
    MkNum(BothInt(a, b), NumOf(a) * DenOf(b) - NumOf(b) * DenOf(a), DenOf(a) * DenOf(b))
NumMul(a, b) ==
    MkNum(BothInt(a, b), NumOf(a) * NumOf(b), DenOf(a) * DenOf(b))
\* True division: the result is always a float.
NumDiv(a, b) == PyFloat(NumOf(a) * DenOf(b), DenOf(a) * NumOf(b))
NumNeg(a) == MkNum(a.k = "int", -NumOf(a), DenOf(a))

Ok(v) == [err |-> "", v |-> v]
Raise(e) == [err |-> e, v |-> PyInt(0)]

\* sum(args), from the accumulator acc on.
RECURSIVE sum_from(_, _)
sum_from(acc, args) ==
    IF args = <<>> THEN Ok(acc)
    ELSE IF ~IsNumber(args[1]) THEN Raise("TypeError")
    ELSE sum_from(NumAdd(acc, args[1]), Tail(args))

builtin_sum(args) == sum_from(PyInt(0), args)

\* scheme_builtins["-"]
builtin_sub(args) ==
    IF Len(args) = 0 THEN Raise("IndexError")
    ELSE IF Len(args) = 1 THEN
        IF IsNumber(args[1]) THEN Ok(NumNeg(args[1])) ELSE Raise("TypeError")
    ELSE LET r == builtin_sum(Tail(args)) IN
        IF r.err # "" THEN r
        ELSE IF ~IsNumber(args[1]) THEN Raise("TypeError")
        ELSE Ok(NumSub(args[1], r.v))

\* scheme_builtins["*"]: args[0] * (the product of the rest), 1 for no args.
RECURSIVE builtin_mul(_)
builtin_mul(args) ==
    IF args = <<>> THEN Ok(PyInt(1))
    ELSE LET r == builtin_mul(Tail(args)) IN
        IF r.err # "" THEN r
        ELSE IF ~IsNumber(args[1]) THEN Raise("TypeError")
        ELSE Ok(NumMul(args[1], r.v))

\* The for loop of divide.
RECURSIVE divide_from(_, _)
divide_from(result, args) ==
    IF args = <<>> THEN Ok(result)
    ELSE IF ~IsNumber(result) \/ ~IsNumber(args[1]) THEN Raise("TypeError")
    ELSE IF NumOf(args[1]) = 0 THEN Raise("ZeroDivisionError")
    ELSE divide_from(NumDiv(result, args[1]), Tail(args))

divide(args) ==
    IF Len(args) = 0 THEN Ok(PyInt(1)) ELSE divide_from(args[1], Tail(args))

\* func(args) for a builtin.
call_builtin(name, args) ==
    CASE name = PLUS -> builtin_sum(args)
      [] name = MINUS -> builtin_sub(args)
      [] name = TIMES -> builtin_mul(args)
      [] name = DIVIDE -> divide(args)

\* ----------------------------------------------------------------- frames

NoBindings == [x \in {} |-> 0]

\* Frame(parent): parent is a frame id, 0 for None.
NewFrame(parent) == [bindings |-> NoBindings, parent |-> parent]

\* What a dict does to a key: equal numbers are one key, a list has no hash.
Hashable(x) == x.k # "list"
Key(x) == IF IsNumber(x) THEN [k |-> "num", num |-> NumOf(x), den |-> DenOf(x)] ELSE x

\* The nearest frame from f outward that binds key; the root when none does.
RECURSIVE owner(_, _, _)
owner(H, f, key) ==
    IF key \in DOMAIN H[f].bindings \/ H[f].parent = 0 THEN f
    ELSE owner(H, H[f].parent, key)

\* Frame.define as an assignment: written to the frame that already binds
\* the name, when one on the chain does, instead of to this frame.
frame_define_outward(H, f, name, value) ==
    LET o == owner(H, f, Key(name))
        g == IF Key(name) \in DOMAIN H[o].bindings THEN o ELSE f
    IN  [H EXCEPT ![g].bindings = (Key(name) :> value) @@ @]

\* Frame.define: frame f of heap H gets name -> value; returns the heap.
frame_define(H, f, name, value) ==
    [H EXCEPT ![f].bindings = (Key(name) :> value) @@ @]

\* Frame.lookup: returns [err, v].
RECURSIVE frame_lookup(_, _, _)
frame_lookup(H, f, name) ==
    IF Key(name) \in DOMAIN H[f].bindings THEN Ok(H[f].bindings[Key(name)])
    ELSE IF H[f].parent # 0 THEN frame_lookup(H, H[f].parent, name)
    ELSE Raise("SchemeNameError")

\* builtins_frame, with the contents of scheme_builtins.
builtins_frame ==
    [bindings |-> [n \in {Sym(b) : b \in BuiltinNames} |-> Builtin(n.s)],
     parent |-> 0]

\* Functions(params, body, defining_frame)
Functions(params, body, defining_frame) ==
    [k |-> "closure", params |-> params, body |-> body,
     defining_frame |-> defining_frame]

\* -------------------------------------------------------------- evaluate

KwDefine == <<"d", "e", "f", "i", "n", "e">>
KwLambda == <<"l", "a", "m", "b", "d", "a">>

\* An outcome of evaluate: the exception raised ("" for none), the value
\* returned, the heap it leaves, and the trace of what it did:
\*   [ev |-> "enter", d, tree, frame]   evaluate(tree, frame) entered at depth d
\*   [ev |-> "exit", d, err, v, nf]     ... and left; nf frames exist by then
\*   [ev |-> "define", d, frame, name, value, before, after]
\*                                      frame.define(name, value): heap before, after
\*   [ev |-> "apply", d, func, args, nf]  operator and operands evaluated
\*   [ev |-> "call", d, func, args, caller, new_frame, heap]
\*                                      the closure's parameters are bound in
\*                                      new_frame; heap is the heap at that point
Out(e, v, H, log) == [err |-> e, v |-> v, H |-> H, log |-> log]
Throw(e, H, log) == Out(e, PyInt(0), H, log)

\* len(func.params) and zip's view of func.params: a list gives its
\* elements, a str its characters; a number has no len().
HasLen(params) == params.k \in {"list", "sym"}
ParamSeq(params) ==
    IF params.k = "list" THEN params.xs
    ELSE [i \in 1..Len(params.s) |-> Sym(<<params.s[i]>>)]

\* The for loop binding parameters in new_frame: stops with TypeError at a
\* parameter that cannot be a dict key.  Returns [err, H].
RECURSIVE bind_params(_, _, _, _)
bind_params(H, new_frame, params, args) ==
    IF params = <<>> THEN [err |-> "", H |-> H]
    ELSE IF ~Hashable(params[1]) THEN [err |-> "TypeError", H |-> H]
    ELSE bind_params(frame_define(H, new_frame, params[1], args[1]),
                     new_frame, Tail(params), Tail(args))

\* The new frame's parent, taken from the caller instead of the closure.
call_parent_dynamic(func, caller) == caller

\* The parent of the frame made for a call of func from frame caller.
call_parent(func, caller) == func.defining_frame

\* The arity check accepting surplus arguments.
arity_ok_lenient(nargs, nparams) == nargs >= nparams

\* The arity check of a closure call.
arity_ok(nargs, nparams) == nargs = nparams

\* Symbol evaluation consulting the frame chain before scheme_builtins.
eval_symbol_frame_first(H, frame, name) ==
    LET r == frame_lookup(H, frame, Sym(name)) IN
    IF r.err = "" THEN r
    ELSE IF name \in BuiltinNames THEN Ok(Builtin(name))
    ELSE r

\* The str branch of evaluate: scheme_builtins first, then frame.lookup.
eval_symbol(H, frame, name) ==
    IF name \in BuiltinNames THEN Ok(Builtin(name))
    ELSE frame_lookup(H, frame, Sym(name))

RECURSIVE evaluate(_, _, _, _)
RECURSIVE eval_args(_, _, _, _, _)
RECURSIVE eval_args_right_to_left(_, _, _, _, _)

\* The operands evaluated last to first.
eval_args_right_to_left(rest, frame, H, d, acc) ==
    IF rest = <<>> THEN [err |-> "", v |-> acc, H |-> H, log |-> <<>>]
    ELSE LET r == evaluate(rest[Len(rest)], frame, H, d) IN
        IF r.err # "" THEN r
        ELSE LET q == eval_args_right_to_left(SubSeq(rest, 1, Len(rest) - 1),
                                              frame, r.H, d, <<r.v>> \o acc)
             IN  [q EXCEPT !.log = r.log \o @]

\* [evaluate(arg, frame) for arg in rest]: returns an outcome whose v is the
\* list of values (acc followed by the values of rest).
eval_args(rest, frame, H, d, acc) ==
    IF rest = <<>> THEN [err |-> "", v |-> acc, H |-> H, log |-> <<>>]
    ELSE LET r == evaluate(rest[1], frame, H, d) IN
        IF r.err # "" THEN r
        ELSE LET q == eval_args(Tail(rest), frame, r.H, d, Append(acc, r.v))
             IN  [q EXCEPT !.log = r.log \o @]

\* The call of a closure: lines 344-350.
apply_closure(func, args, caller, H, d) ==
    IF ~HasLen(func.params) THEN Throw("TypeError", H, <<>>)
    ELSE IF ~arity_ok(Len(args), Len(ParamSeq(func.params)))
    THEN Throw("SchemeEvaluationError", H, <<>>)
    ELSE
        LET new_frame == Len(H) + 1
            H1 == Append(H, NewFrame(call_parent(func, caller)))
            b == bind_params(H1, new_frame, ParamSeq(func.params), args)
        IN  IF b.err # "" THEN Throw(b.err, b.H, <<>>)
            ELSE LET r == evaluate(func.body, new_frame, b.H, d + 1)
                 IN  [r EXCEPT !.log =
                         <<[ev |-> "call", d |-> d, func |-> func, args |-> args,
                            caller |-> caller, new_frame |-> new_frame,
                            heap |-> b.H]>> \o @]

\* The application branch: lines 341-354.
eval_application(tree, frame, H, d) ==
    LET rf == evaluate(tree.xs[1], frame, H, d + 1) IN
    IF rf.err # "" THEN rf
    ELSE LET ra == eval_args(Tail(tree.xs), frame, rf.H, d + 1, <<>>) IN
        IF ra.err # "" THEN [ra EXCEPT !.log = rf.log \o @]
        ELSE
            LET func == rf.v
                args == ra.v
                pre == rf.log \o ra.log \o
                       <<[ev |-> "apply", d |-> d, func |-> func, args |-> args,
                          nf |-> Len(ra.H)]>>
                r == IF func.k = "closure"
                         THEN apply_closure(func, args, frame, ra.H, d)
                     ELSE IF func.k = "builtin"
                         THEN LET c == call_builtin(func.s, args)
                              IN  Out(c.err, c.v, ra.H, <<>>)
                     ELSE Throw("SchemeEvaluationError", ra.H, <<>>)
            IN  [r EXCEPT !.log = pre \o @]

\* frame.define(name, value) followed by return value.
define_and_return(frame, name, r, d) ==
    IF ~Hashable(name) THEN Throw("TypeError", r.H, r.log)
    ELSE LET H2 == frame_define(r.H, frame, name, r.v)
         IN  Out("", r.v, H2,
                 Append(r.log, [ev |-> "define", d |-> d, frame |-> frame,
                                name |-> name, value |-> r.v,
                                before |-> r.H, after |-> H2]))

\* The define branch: lines 324-335.
eval_define(tree, frame, H, d) ==
    IF Len(tree.xs) # 3 THEN Throw("ValueError", H, <<>>)     \* _, name_or_sig, expr = tree
    ELSE LET name_or_sig == tree.xs[2]
             expr == tree.xs[3]
         IN
         IF IsList(name_or_sig) THEN
             IF name_or_sig.xs = <<>> THEN Throw("ValueError", H, <<>>)   \* func, *params = []
             ELSE LET func == name_or_sig.xs[1]
                      params == Lst(Tail(name_or_sig.xs))
                      lambda_expr == Lst(<<Sym(KwLambda), params, expr>>)
                      r == evaluate(lambda_expr, frame, H, d + 1)
                  IN  IF r.err # "" THEN r ELSE define_and_return(frame, func, r, d)
         ELSE LET r == evaluate(expr, frame, H, d + 1)
              IN  IF r.err # "" THEN r ELSE define_and_return(frame, name_or_sig, r, d)

\* The lambda branch: lines 337-339.
eval_lambda(tree, frame, H, d) ==
    IF Len(tree.xs) # 3 THEN Throw("ValueError", H, <<>>)     \* _, params, body = tree
    ELSE Out("", Functions(tree.xs[2], tree.xs[3], frame), H, <<>>)

\* The body of evaluate(tree, frame), frame given.
eval_body(tree, frame, H, d) ==
    IF IsNumber(tree) THEN Out("", tree, H, <<>>)
    ELSE IF IsStr(tree) THEN
        LET r == eval_symbol(H, frame, tree.s) IN Out(r.err, r.v, H, <<>>)
    ELSE IF tree.xs = <<>> THEN Throw("SchemeEvaluationError", H, <<>>)
    ELSE IF tree.xs[1] = Sym(KwDefine) THEN eval_define(tree, frame, H, d)
    ELSE IF tree.xs[1] = Sym(KwLambda) THEN eval_lambda(tree, frame, H, d)
    ELSE eval_application(tree, frame, H, d)

\* evaluate(tree, frame) at nesting depth d over heap H.  A call nested
\* deeper than the interpreter's stack allows raises RecursionError.
evaluate(tree, frame, H, d) ==
    IF d >= RecursionLimit THEN Throw("RecursionError", H, <<>>)
    ELSE LET r == eval_body(tree, frame, H, d) IN
        [r EXCEPT !.log =
            <<[ev |-> "enter", d |-> d, tree |-> tree, frame |-> frame]>> \o @ \o
            <<[ev |-> "exit", d |-> d, err |-> r.err, v |-> r.v, nf |-> Len(r.H)]>>]

\* ------------------------------------------------- the inputs of the model

\* The characters source texts are made of.
Alphabet == {"(", ")", " ", "\n", "\t", ";", "a", "1", "-", "."}

Texts == UNION {[1..n -> Alphabet] : n \in 0..MaxLen}

\* The tokens of the token sequences handed to parse directly.
TokenPool == {LPAREN, RPAREN, <<"a">>, <<"-", "1">>, <<"1", ".", "1">>}

TokenSeqs == UNION {[1..n -> TokenPool] : n \in 0..MaxTokens}

SX == Sym(<<"x">>)
SY == Sym(<<"y">>)
SZ == Sym(<<"z">>)
SF == Sym(<<"f">>)
SH == Sym(<<"h">>)
SK == Sym(<<"k">>)
Def == Sym(KwDefine)
Lam == Sym(KwLambda)
Plus == Sym(PLUS)

\* The expressions evaluated in the session frame, as parse returns them.
SessionPool == {
    Lst(<<Def, SX, PyInt(1)>>),                                    \* (define x 1)
    SX,                                                            \* x
    Lst(<<Def, SH, Lst(<<Lst(<<Lam, Lst(<<SX>>), Lst(<<Lam, Lst(<<>>), SX>>)>>),
                        PyInt(2)>>)>>),       \* (define h ((lambda (x) (lambda () x)) 2))
    Lst(<<Lst(<<Lam, Lst(<<SX>>), Lst(<<SH>>)>>), PyInt(3)>>),      \* ((lambda (x) (h)) 3)
    Lst(<<Def, Lst(<<SF>>), SX>>),                                  \* (define (f) x)
    Lst(<<Lst(<<Lam, Lst(<<SX>>), Lst(<<SF>>)>>), PyInt(3)>>),      \* ((lambda (x) (f)) 3)
    Lst(<<Def, Lst(<<SK>>), Lst(<<Def, SX, PyInt(5)>>)>>),          \* (define (k) (define x 5))
    Lst(<<SK>>),                                                   \* (k)
    Lst(<<Def, Plus, PyInt(1)>>),                                 \* (define + 1)
    Lst(<<Plus, SX, PyInt(1)>>),                                   \* (+ x 1)
    Lst(<<SH, PyInt(1)>>),                                         \* (h 1)
    Lst(<<Def, SX>>),                                              \* (define x)
    Lst(<<Def, Lst(<<>>), PyInt(1)>>),                            \* (define () 1)
    Lst(<<Def, SX, Lst(<<Def, SY, PyInt(3)>>)>>),                   \* (define x (define y 3))
    Lst(<<Plus, Lst(<<Def, SY, PyInt(1)>>), SY>>),                  \* (+ (define y 1) y)
    Lst(<<Plus, SY, Lst(<<Def, SY, PyInt(2)>>)>>),                  \* (+ y (define y 2))
    Lst(<<PyInt(1), SZ, Lst(<<>>)>>),                              \* (1 z ())
    Lst(<<Plus, Lst(<<>>), SZ>>)                                   \* (+ () z)
}

\* The expressions evaluated with the frame omitted.
OmittedPool == {
    Lst(<<Lst(<<Lam, Lst(<<Plus>>), Plus>>), PyInt(5)>>),         \* ((lambda (+) +) 5)
    Lst(<<Lst(<<Lam, Lst(<<SX, SX>>), SX>>), PyInt(1), PyInt(2)>>),  \* ((lambda (x x) x) 1 2)
    Lst(<<Lst(<<Lam, Lst(<<SX>>), SX>>)>>),                         \* ((lambda (x) x))
    Lst(<<Lam, Lst(<<SX>>)>>),                                     \* (lambda (x))
    Lst(<<Lst(<<Lam, Lst(<<SF>>), Lst(<<SF, SF>>)>>),
          Lst(<<Lam, Lst(<<SF>>), Lst(<<SF, SF>>)>>)>>),  \* ((lambda (f) (f f)) (lambda (f) (f f)))
    Lst(<<Sym(DIVIDE), PyInt(1), Lst(<<Sym(MINUS), PyInt(1), PyInt(1)>>)>>), \* (/ 1 (- 1 1))
    Lst(<<Def, Plus, PyInt(1)>>),                                 \* (define + 1)
    Lst(<<Def, SX, PyInt(1), PyInt(2)>>),                         \* (define x 1 2)
    Lst(<<Lst(<<Lam, Sym(<<"x", "y">>), SY>>), PyInt(1), PyInt(2)>>),  \* ((lambda xy y) 1 2)
    Lst(<<Lst(<<Lam, Lst(<<Lst(<<SX>>)>>), PyInt(1)>>), PyInt(2)>>),   \* ((lambda ((x)) 1) 2)
    Lst(<<Lst(<<Lam, PyInt(5), PyInt(1)>>), PyInt(2)>>),          \* ((lambda 5 1) 2)
    Lst(<<Lst(<<Lam, Lst(<<SH, SX>>), Lst(<<SH, SX, SX>>)>>),
          Lst(<<Lam, Lst(<<SX>>), SX>>), PyInt(1)>>)     \* ((lambda (h x) (h x x)) (lambda (x) x) 1)
}

\* ------------------------------------------------------ the state machine

NoParse == [err |-> "", tree |-> Lst(<<>>)]
NoLast == [call |-> "none", tree |-> Lst(<<>>), frame |-> 0, pre |-> <<>>,
           err |-> "", v |-> PyInt(0), log |-> <<>>]

EvalIdle ==
    /\ frames = <<builtins_frame>>
    /\ global_frame = 0
    /\ last = NoLast
    /\ ncmds = 0

FrontIdle ==
    /\ source = <<>>
    /\ token_list = <<>>
    /\ parsed = NoParse
    /\ pc = "done"
    /\ via = "tokens"

\* A text to tokenize and parse, or a token sequence to parse.
FrontInit ==
    /\ EvalIdle
    /\ parsed = NoParse
    /\ \/ via = "text" /\ source \in Texts /\ token_list = <<>> /\ pc = "tokenize"
       \/ via = "tokens" /\ source = <<>> /\ token_list \in TokenSeqs /\ pc = "parse"

\* token_list = tokenize(line)
Tokenize ==
    /\ pc = "tokenize"
    /\ token_list' = tokenize(source)
    /\ pc' = "parse"
    /\ UNCHANGED <<source, parsed, via, eval_vars>>

\* expression = parse(token_list)
Parse ==
    /\ pc = "parse"
    /\ parsed' = parse(token_list)
    /\ pc' = "done"
    /\ UNCHANGED <<source, token_list, via, eval_vars>>

FrontNext == Tokenize \/ Parse

SpecFront == FrontInit /\ [][FrontNext]_vars

\* The interpreter after start-up: the root frame holds the builtins.
\* The heap keeps every Frame ever made, in order of creation (Python frees
\* the ones nothing refers to any more; no frame id is ever reused here).
Init == EvalIdle /\ FrontIdle

\* The frame omitted, taken to be builtins_frame itself.
default_frame_is_root(heap) == [frame |-> 1, H |-> heap]

\* if frame is None: frame = Frame(parent=builtins_frame)
default_frame(heap) ==
    [frame |-> Len(heap) + 1, H |-> Append(heap, NewFrame(1))]

\* evaluate(tree) with the frame omitted: a fresh frame under builtins_frame.
Evaluate(tree) ==
    /\ ncmds < MaxCmds
    /\ LET frame == default_frame(frames).frame
           H1 == default_frame(frames).H
           r == evaluate(tree, frame, H1, 0)
       IN  /\ frames' = r.H
           /\ last' = [call |-> "evaluate", tree |-> tree, frame |-> frame,
                       pre |-> H1, err |-> r.err, v |-> r.v, log |-> r.log]
    /\ ncmds' = ncmds + 1
    /\ UNCHANGED <<global_frame, front_vars>>

\* output, self.global_frame = result_and_frame(expression[, self.global_frame])
\* as SchemeREPL.onecmd calls it: the session frame is kept once a call returns.
ResultAndFrame(tree) ==
    /\ ncmds < MaxCmds
    /\ LET fresh == global_frame = 0
           frame == IF fresh THEN default_frame(frames).frame ELSE global_frame
           H1 == IF fresh THEN default_frame(frames).H ELSE frames
           r == evaluate(tree, frame, H1, 0)
       IN  /\ frames' = r.H
           /\ last' = [call |-> "result_and_frame", tree |-> tree, frame |-> frame,
                       pre |-> H1, err |-> r.err, v |-> r.v, log |-> r.log]
           /\ global_frame' = IF r.err = "" THEN frame ELSE global_frame
    /\ ncmds' = ncmds + 1
    /\ UNCHANGED front_vars

Next ==
    \/ \E tree \in OmittedPool : Evaluate(tree)
    \/ \E tree \in SessionPool : ResultAndFrame(tree)

Spec == Init /\ [][Next]_vars

\* ======================================================================
\* Properties of the lexer and the parser (specification SpecFront)
\* ======================================================================

\* Position i of src lies in a comment: after a ';' with no newline between.
InComment(src, i) ==
    \E j \in 1..i : src[j] = ";" /\ \A m \in j..i : src[m] # "\n"

\* "c" comment, "p" parenthesis, "w" white space, "a" atom character.
Class(src, i) ==
    IF InComment(src, i) THEN "c"
    ELSE IF src[i] \in {"(", ")"} THEN "p"
    ELSE IF src[i] \in {" ", "\n"} THEN "w"
    ELSE "a"

\* Where a token starts: at a parenthesis, or at the first character of a
\* maximal run of atom characters.
Starts(src) ==
    {i \in 1..Len(src) :
        \/ Class(src, i) = "p"
        \/ Class(src, i) = "a" /\ (i = 1 \/ Class(src, i - 1) # "a")}

RunEnd(src, i) ==
    CHOOSE j \in i..Len(src) :
        /\ \A m \in i..j : Class(src, m) = "a"
        /\ (j = Len(src) \/ Class(src, j + 1) # "a")

TokenAt(src, i) ==
    IF Class(src, i) = "p" THEN <<src[i]>> ELSE SubSeq(src, i, RunEnd(src, i))

NthStart(src, n) ==
    CHOOSE i \in Starts(src) : Cardinality({j \in Starts(src) : j < i}) = n - 1

ExpectedTokens(src) ==
    [n \in 1..Cardinality(Starts(src)) |-> TokenAt(src, NthStart(src, n))]

\* C9: tokenize returns, in source order, one token per parenthesis outside a
\* comment and one per maximal run of other non-whitespace characters outside
\* a comment; no token is empty and no atom holds a space, a newline or a
\* parenthesis; a comment yields no token and ends the atom in progress.
C9_TokenizeRuns ==
    (via = "text" /\ pc # "tokenize") =>
        /\ token_list = ExpectedTokens(source)
        /\ \A n \in 1..Len(token_list) :
            /\ token_list[n] # <<>>
            /\ token_list[n] \in {LPAREN, RPAREN}
               \/ \A m \in 1..Len(token_list[n]) :
                      token_list[n][m] \notin {" ", "\n", "(", ")"}

\* A comment right after an atom, then a newline and one more token.
C9_Witness ==
    /\ via = "text" /\ pc = "parse"
    /\ \E i \in 2..Len(source) :
        /\ source[i] = ";" /\ Class(source, i - 1) = "a"
        /\ \E j \in (i + 1)..Len(source) : Class(source, j) \in {"a", "p"}
    /\ Len(token_list) = 2

\* The nesting depth after the first i tokens.
Depth(tokens, i) ==
    Cardinality({j \in 1..i : tokens[j] = LPAREN})
        - Cardinality({j \in 1..i : tokens[j] = RPAREN})

\* The tokens are exactly one expression: the depth is positive after every
\* proper non-empty prefix of a group, and zero at the end.
WellFormed(tokens) ==
    /\ tokens # <<>>
    /\ Depth(tokens, Len(tokens)) = 0
    /\ \A i \in 1..(Len(tokens) - 1) : Depth(tokens, i) > 0

OpenMark == [k |-> "open"]
CloseMark == [k |-> "close"]

\* A tree written back as its sequence of parentheses and atoms.
RECURSIVE Flatten(_)
RECURSIVE FlattenAll(_)
FlattenAll(xs) == IF xs = <<>> THEN <<>> ELSE Flatten(xs[1]) \o FlattenAll(Tail(xs))
Flatten(tree) ==
    IF IsList(tree) THEN <<OpenMark>> \o FlattenAll(tree.xs) \o <<CloseMark>>
    ELSE <<tree>>

ExpectedItems(tokens) ==
    [i \in 1..Len(tokens) |->
        IF tokens[i] = LPAREN THEN OpenMark
        ELSE IF tokens[i] = RPAREN THEN CloseMark
        ELSE number_or_symbol(tokens[i])]

\* C5: for a non-empty token sequence parse returns a tree exactly when the
\* sequence is one well-formed expression, the tree holding the classified
\* atoms and the groups in token order; otherwise it raises SchemeSyntaxError.
C5_ParseOneExpression ==
    (pc = "done" /\ token_list # <<>>) =>
        IF WellFormed(token_list)
        THEN parsed.err = "" /\ Flatten(parsed.tree) = ExpectedItems(token_list)
        ELSE parsed.err = "SchemeSyntaxError"

\* A nested group with a number in it has been parsed.
C5_Witness ==
    /\ pc = "done" /\ parsed.err = ""
    /\ IsList(parsed.tree)
    /\ \E i \in 1..Len(parsed.tree.xs) :
        /\ IsList(parsed.tree.xs[i])
        /\ \E j \in 1..Len(parsed.tree.xs[i].xs) : IsNumber(parsed.tree.xs[i].xs[j])

\* C6: parsing an empty token sequence raises SchemeSyntaxError, which the
\* console shell catches.
C6_EmptyInputSyntaxError ==
    (pc = "done" /\ token_list = <<>>) =>
        parsed.err = "SchemeSyntaxError" /\ ShellCatches(parsed.err)

\* ======================================================================
\* Properties of the evaluator (specification Spec)
\* ======================================================================

Log == last.log
Evs(kind) == {i \in 1..Len(Log) : Log[i].ev = kind}

\* The exit of the evaluate call that event i belongs to (for an "enter",
\* its own exit): the first exit at the same depth after i.
ExitOf(i) ==
    CHOOSE j \in (i + 1)..Len(Log) :
        /\ Log[j].ev = "exit" /\ Log[j].d = Log[i].d
        /\ \A m \in (i + 1)..(j - 1) : ~(Log[m].ev = "exit" /\ Log[m].d = Log[i].d)

IsDefineForm(tree) == IsList(tree) /\ tree.xs # <<>> /\ tree.xs[1] = Def
IsLambdaForm(tree) == IsList(tree) /\ tree.xs # <<>> /\ tree.xs[1] = Lam
IsApplication(tree) ==
    IsList(tree) /\ tree.xs # <<>> /\ tree.xs[1] \notin {Def, Lam}

\* The frames on the parent chain of f, f included.
RECURSIVE Chain(_, _)
Chain(heap, f) == IF f = 0 THEN {} ELSE {f} \cup Chain(heap, heap[f].parent)

\* ---------------------------------------------------------------- C1

\* C1: a closure records the frame its lambda was evaluated in; the frame
\* made for a call has that frame as parent, whatever frame the call is made
\* from; a body that is a free variable evaluates to what the closure's
\* defining frame sees.
C1_LexicalScoping ==
    /\ \A i \in Evs("enter") :
        (IsLambdaForm(Log[i].tree) /\ Log[ExitOf(i)].err = "") =>
            /\ Log[ExitOf(i)].v.k = "closure"
            /\ Log[ExitOf(i)].v.defining_frame = Log[i].frame
    /\ \A i \in Evs("call") :
        LET e == Log[i]
            body == e.func.body
        IN  /\ e.heap[e.new_frame].parent = e.func.defining_frame
            /\ (/\ IsStr(body)
                /\ body.s \notin BuiltinNames
                /\ Key(body) \notin DOMAIN e.heap[e.new_frame].bindings
                /\ Log[i + 1].ev = "enter") =>
                   LET x == Log[ExitOf(i + 1)]
                       want == frame_lookup(e.heap, e.func.defining_frame, body)
                   IN  x.err = want.err /\ (x.err = "" => x.v = want.v)

\* A closure made by a call that has returned is called from a frame that
\* binds its free variable to another value, and yields its own.
C1_Witness ==
    \E i \in Evs("call") :
        LET e == Log[i]
            body == e.func.body
        IN  /\ IsStr(body)
            /\ e.func.defining_frame \notin Chain(e.heap, e.caller)
            /\ e.func.defining_frame # last.frame
            /\ frame_lookup(e.heap, e.caller, body).err = ""
            /\ frame_lookup(e.heap, e.func.defining_frame, body).err = ""
            /\ frame_lookup(e.heap, e.caller, body).v
                   # frame_lookup(e.heap, e.func.defining_frame, body).v
            /\ last.err = ""
            /\ last.v = frame_lookup(e.heap, e.func.defining_frame, body).v

\* ---------------------------------------------------------------- C2

\* Heap after equals heap before but for the binding of key in frame f.
OnlyBindingChanged(before, after, f, key) ==
    /\ Len(after) = Len(before)
    /\ \A g \in 1..Len(before) :
        /\ after[g].parent = before[g].parent
        /\ g # f => after[g] = before[g]
    /\ DOMAIN after[f].bindings = DOMAIN before[f].bindings \cup {key}
    /\ \A q \in DOMAIN before[f].bindings :
        q # key => after[f].bindings[q] = before[f].bindings[q]

\* The define evaluated at top level is well formed: (define name expr)
\* or (define (name p...) body).
TopDefineName ==
    IF IsList(last.tree.xs[2]) THEN last.tree.xs[2].xs[1] ELSE last.tree.xs[2]

\* C2 as stated: a define evaluated in frame F returns the value, leaves
\* F.lookup(name) equal to it, and changes nothing but the binding of name in
\* F: every other binding of F and every other frame is as before.
C2_DefineChangesOnlyName ==
    (last.call # "none" /\ IsDefineForm(last.tree) /\ last.err = "") =>
        /\ frame_lookup(frames, last.frame, TopDefineName) = Ok(last.v)
        /\ \A g \in 1..Len(last.pre) :
            /\ g # last.frame => frames[g] = last.pre[g]
            /\ \A q \in DOMAIN frames[g].bindings :
                (g = last.frame /\ q # Key(TopDefineName)) =>
                    /\ q \in DOMAIN last.pre[g].bindings
                    /\ frames[g].bindings[q] = last.pre[g].bindings[q]

\* C2 amended: the write a define makes changes only the binding of name in
\* the frame of the evaluation it belongs to, and the define returns the
\* value bound; over a whole top-level evaluation in frame F every frame that
\* existed before, other than F, is unchanged (what evaluating expr does to F,
\* such as a define nested in it, comes on top); a frame made for a call
\* starts with the parameters only, so a define in a closure body is seen by
\* neither the caller nor a later call.
C2_DefineFrameEffect ==
    /\ \A i \in Evs("define") :
        LET e == Log[i]
            x == Log[i + 1]
            enters == {j \in 1..(i - 1) : Log[j].ev = "enter" /\ Log[j].d = e.d}
            mine == CHOOSE j \in enters : \A m \in enters : m <= j
        IN  /\ OnlyBindingChanged(e.before, e.after, e.frame, Key(e.name))
            /\ frame_lookup(e.after, e.frame, e.name) = Ok(e.value)
            /\ x.ev = "exit" /\ x.d = e.d /\ x.err = "" /\ x.v = e.value
            /\ IsDefineForm(Log[mine].tree) /\ Log[mine].frame = e.frame
    /\ last.call # "none" =>
        \A g \in 1..Len(last.pre) : g # last.frame => frames[g] = last.pre[g]
    /\ \A i \in Evs("call") :
        LET e == Log[i] IN
        /\ e.new_frame = Len(e.heap)
        /\ \A j \in 1..(i - 1) :
            Log[j].ev = "call" => Log[j].new_frame < e.new_frame
        /\ DOMAIN e.heap[e.new_frame].bindings
               = {Key(ParamSeq(e.func.params)[n]) : n \in 1..Len(e.args)}

\* A define ran in the frame of a closure call while the session frame binds
\* the same name to another value, and still does.
C2_Witness ==
    /\ last.call = "result_and_frame"
    /\ \E i \in Evs("define") :
        LET e == Log[i] IN
        /\ e.frame # last.frame
        /\ e.d > 0
        /\ frame_lookup(last.pre, last.frame, e.name).err = ""
        /\ frame_lookup(frames, last.frame, e.name).v # e.value
        /\ frame_lookup(frames, last.frame, e.name)
               = frame_lookup(last.pre, last.frame, e.name)

\* ---------------------------------------------------------------- C3

\* C3: evaluating a builtin name yields the builtin in every frame, whatever
\* the frame chain binds the name to.
C3_BuiltinPrecedence ==
    /\ \A f \in 2..Len(frames) : \A b \in BuiltinNames :
        LET r == evaluate(Sym(b), f, frames, 0)
        IN  r.err = "" /\ r.v = Builtin(b) /\ r.H = frames
    /\ \A i \in Evs("enter") :
        (IsStr(Log[i].tree) /\ Log[i].tree.s \in BuiltinNames) =>
            /\ Log[i + 1].ev = "exit" /\ Log[i + 1].err = ""
            /\ Log[i + 1].v = Builtin(Log[i].tree.s)

\* The frame of the evaluation binds + to a number (by a define or as a
\* parameter), + was evaluated there, and gave the builtin.
C3_Witness ==
    \E i \in Evs("enter") :
        /\ Log[i].tree = Plus
        /\ frame_lookup(frames, Log[i].frame, Plus).err = ""
        /\ IsNumber(frame_lookup(frames, Log[i].frame, Plus).v)
        /\ Log[i + 1].v = Builtin(PLUS)

\* ---------------------------------------------------------------- C4

\* The last position at which parameter n's key occurs in the list.
LastOccurrence(params, n) ==
    CHOOSE j \in n..Len(params) :
        /\ Key(params[j]) = Key(params[n])
        /\ \A m \in (j + 1)..Len(params) : Key(params[m]) # Key(params[n])

\* C4: a closure with n parameters applied to m arguments raises
\* SchemeEvaluationError when m # n, no frame being made and the body not
\* evaluated; when m = n the parameters are bound in order in the new frame
\* and the application yields what the body yields in that frame.
C4_ClosureArity ==
    \A i \in Evs("apply") :
        LET e == Log[i]
            params == ParamSeq(e.func.params)
            x == ExitOf(i)
        IN  (/\ e.func.k = "closure"
             /\ HasLen(e.func.params)
             /\ \A n \in 1..Len(params) : Hashable(params[n])) =>
            IF Len(e.args) # Len(params)
            THEN /\ x = i + 1
                 /\ Log[x].err = "SchemeEvaluationError"
                 /\ Log[x].nf = e.nf
            ELSE LET c == Log[i + 1] IN
                 /\ c.ev = "call" /\ c.new_frame = e.nf + 1
                 /\ c.func = e.func /\ c.args = e.args
                 /\ \A n \in 1..Len(params) :
                     c.heap[c.new_frame].bindings[Key(params[n])]
                         = e.args[LastOccurrence(params, n)]
                 /\ IF Log[i + 2].ev = "enter"
                    THEN /\ Log[i + 2].tree = e.func.body
                         /\ Log[i + 2].frame = c.new_frame
                         /\ ExitOf(i + 2) = x - 1
                         /\ Log[x].err = Log[x - 1].err
                         /\ Log[x].err = "" => Log[x].v = Log[x - 1].v
                    ELSE x = i + 2 /\ Log[x].err = "RecursionError"

\* One evaluation holds a call with two parameters bound to two arguments
\* and a call with the wrong number of arguments.
C4_Witness ==
    /\ \E i \in Evs("apply") :
        /\ Log[i].func.k = "closure" /\ Len(Log[i].args) = 2
        /\ Log[i + 1].ev = "call"
    /\ \E i \in Evs("apply") :
        /\ Log[i].func.k = "closure"
        /\ Len(Log[i].args) # Len(ParamSeq(Log[i].func.params))
    /\ last.err = "SchemeEvaluationError"

\* ---------------------------------------------------------------- C7

InvalidSpecialForm(tree) ==
    \/ IsDefineForm(tree) /\ (Len(tree.xs) # 3 \/ tree.xs[2] = Lst(<<>>))
    \/ IsLambdaForm(tree) /\ Len(tree.xs) # 3

\* C7: a structurally invalid use of define or lambda fails with
\* SchemeEvaluationError and leaves the frame unchanged.
C7_InvalidFormEvaluationError ==
    (last.call # "none" /\ InvalidSpecialForm(last.tree)) =>
        /\ last.err = "SchemeEvaluationError"
        /\ frames[last.frame] = last.pre[last.frame]

\* ---------------------------------------------------------------- C8

\* For the application entered at event i: the apply event, if it got there.
ApplyOf(i) ==
    {m \in (i + 1)..(ExitOf(i) - 1) : Log[m].ev = "apply" /\ Log[m].d = Log[i].d}

\* The evaluate calls made for its operator and operands, in trace order.
Operands(i) ==
    LET stop == IF ApplyOf(i) = {} THEN ExitOf(i) ELSE CHOOSE m \in ApplyOf(i) : TRUE
    IN  {m \in (i + 1)..(stop - 1) : Log[m].ev = "enter" /\ Log[m].d = Log[i].d + 1}

NthOperand(i, n) ==
    CHOOSE m \in Operands(i) : Cardinality({c \in Operands(i) : c < m}) = n - 1

\* (define s n): a define of symbol s to a number.
DefinesTo(t, s) ==
    /\ IsDefineForm(t) /\ Len(t.xs) = 3
    /\ t.xs[2] = s /\ IsNumber(t.xs[3])

\* A define of s occurs somewhere in t.
RECURSIVE WritesName(_, _)
WritesName(t, s) ==
    /\ IsList(t)
    /\ \/ /\ IsDefineForm(t) /\ Len(t.xs) >= 2
          /\ \/ t.xs[2] = s
             \/ IsList(t.xs[2]) /\ t.xs[2].xs # <<>> /\ t.xs[2].xs[1] = s
       \/ \E n \in 1..Len(t.xs) : WritesName(t.xs[n], s)

\* C8: in an application the operator is evaluated first, then the operands
\* left to right, all in the frame of the application and all before the
\* callable is checked or applied; the error raised is that of the leftmost
\* failing one; a define in operand a is seen by operand b > a and not by
\* operand b < a.
C8_EvaluationOrder ==
    /\ \A i \in Evs("enter") :
        IsApplication(Log[i].tree) =>
            LET xs == Log[i].tree.xs
                k == Cardinality(Operands(i))
            IN  /\ k <= Len(xs)
                /\ \A n \in 1..k :
                    /\ Log[NthOperand(i, n)].tree = xs[n]
                    /\ Log[NthOperand(i, n)].frame = Log[i].frame
                    /\ n < k => Log[ExitOf(NthOperand(i, n))].err = ""
                /\ IF ApplyOf(i) # {}
                   THEN LET a == Log[CHOOSE m \in ApplyOf(i) : TRUE] IN
                        /\ k = Len(xs)
                        /\ a.func = Log[ExitOf(NthOperand(i, 1))].v
                        /\ a.args = [n \in 1..(k - 1) |->
                                        Log[ExitOf(NthOperand(i, n + 1))].v]
                   ELSE \/ /\ k > 0
                           /\ Log[ExitOf(NthOperand(i, k))].err # ""
                           /\ Log[ExitOf(i)].err = Log[ExitOf(NthOperand(i, k))].err
                        \/ /\ k < Len(xs)
                           /\ k > 0 => Log[ExitOf(NthOperand(i, k))].err = ""
                           /\ Log[ExitOf(i)].err = "RecursionError"
    /\ (last.call # "none" /\ IsApplication(last.tree)) =>
        LET xs == last.tree.xs IN
        \A a, b \in 2..Len(xs) :
            (/\ IsStr(xs[b]) /\ xs[b].s \notin BuiltinNames
             /\ DefinesTo(xs[a], xs[b])
             /\ b <= Cardinality(Operands(1))) =>
                LET got == Log[ExitOf(NthOperand(1, b))] IN
                /\ (a < b /\ \A c \in (a + 1)..(b - 1) : ~WritesName(xs[c], xs[b]))
                       => got.err = "" /\ got.v = xs[a].xs[3]
                /\ (b < a /\ \A c \in 1..(b - 1) : ~WritesName(xs[c], xs[b]))
                       => /\ got.err = frame_lookup(last.pre, last.frame, xs[b]).err
                          /\ got.err = "" =>
                               got.v = frame_lookup(last.pre, last.frame, xs[b]).v

\* An operand that reads a name follows the operand that defines it, the
\* name being unbound before, and the application succeeds.
C8_Witness ==
    /\ last.call # "none" /\ IsApplication(last.tree) /\ last.err = ""
    /\ \E a, b \in 2..Len(last.tree.xs) :
        /\ a < b
        /\ IsStr(last.tree.xs[b])
        /\ DefinesTo(last.tree.xs[a], last.tree.xs[b])
        /\ frame_lookup(last.pre, last.frame, last.tree.xs[b]).err = "SchemeNameError"

\* --------------------------------------------------------------- C10

\* C10: the root frame holds the four builtins and nothing else, and every
\* other frame's parent chain is finite, acyclic and ends at the root.
C10_RootFrameImmutable ==
    /\ frames[1] = builtins_frame
    /\ DOMAIN frames[1].bindings = {Sym(b) : b \in BuiltinNames}
    /\ \A f \in 2..Len(frames) : frames[f].parent \in 1..(f - 1)
    /\ global_frame # 1
    /\ \A i \in Evs("call") :
        /\ Log[i].heap[1] = builtins_frame
        /\ \A f \in 2..Len(Log[i].heap) : Log[i].heap[f].parent \in 1..(f - 1)

\* The session frame binds the builtin name +, a closure call has made a
\* frame, and the latest evaluation failed.
C10_Witness ==
    /\ global_frame # 0
    /\ Plus \in DOMAIN frames[global_frame].bindings
    /\ Evs("call") # {}
    /\ last.err # ""
    /\ last.call = "evaluate"

====
